---- MODULE Spec2Model ----
(***************************************************************************)
(* Link-bank tracking and batch generation of the wiki generator.          *)
(*                                                                         *)
(* Text (URLs, model output, prompt sections) is a sequence of tokens; a   *)
(* Python dict is a function whose DOMAIN is the set of keys present.      *)
(***************************************************************************)
EXTENDS Integers, Sequences, FiniteSets, TLC

\* ------------------------------------------------------------------ bounds
\* Longest primary link bank handed to set_global_links.
MaxBank == 2
\* Largest per-link quota ("count") in a bank.
MaxCount == 1
\* Usage count up to which further calls are explored (an unlimited link's
\* count grows without bound).
MaxUsage == 3

\* ------------------------------------------------------------------ text
\* The empty string; falsy in Python.
Empty == <<>>

\* Two URLs, the second an extension of the first, so that a text holding
\* UrlLong also holds UrlShort as a substring.
UrlShort == <<"x">>
UrlLong == <<"x", "y">>
Urls == {Empty, UrlShort, UrlLong}


\* needle in hay (Python's substring test on str).
Contains(hay, needle) ==
    \E i \in 0..(Len(hay) - Len(needle)) :
        SubSeq(hay, i + 1, i + Len(needle)) = needle

\* dict.get(key, default)
Get(d, key, default) == IF key \in DOMAIN d THEN d[key] ELSE default

\* Texts the language model may answer with: no URL, UrlShort followed by
\* white space, UrlLong (which also holds UrlShort).
Responses == {Empty, <<"x", " ">>, UrlLong}

\* Link entries of a bank file: full entries, an entry with neither anchors
\* nor count, and an entry without url.
LinkEntries ==
    [url : {UrlShort, UrlLong}, anchors : {<<"a">>}, count : 0..MaxCount]
        \cup {[url |-> UrlShort], [anchors |-> <<"a">>, count |-> 0]}

RECURSIVE SeqsUpTo(_, _)
SeqsUpTo(S, n) ==
    IF n = 0 THEN {<<>>}
    ELSE LET shorter == SeqsUpTo(S, n - 1)
         IN shorter \cup {Append(s, e) : s \in {t \in shorter : Len(t) = n - 1}, e \in S}

Banks == SeqsUpTo(LinkEntries, MaxBank)

\* ------------------------------------------------------- generator object
\* n passed by both callers of _get_random_masking_links.
SampleSize == 3

Min(a, b) == IF a < b THEN a ELSE b

\* set_global_links: the bank is replaced and every URL of it (the empty
\* string for an entry without url) is keyed with usage 0.
set_global_links(links) ==
    [global_links |-> links,
     link_usage |-> [u \in {Get(links[i], "url", Empty) : i \in DOMAIN links} |-> 0]]

\* set_masking_links: entries without a (non-empty) url are dropped.
set_masking_links(links) ==
    SelectSeq(links, LAMBDA l : Get(l, "url", Empty) # Empty)

\* Mutant: the quota test lets a link through once more after its quota.
IsEligible_OffByOne(link, usage) ==
    LET url == Get(link, "url", Empty)
        target == Get(link, "count", 0)
    IN  /\ url # Empty
        /\ \/ target = 0
           \/ Get(usage, url, 0) <= target

\* Mutant: a count of 0 is treated as a quota of 0 instead of unlimited.
IsEligible_NoUnlimited(link, usage) ==
    LET url == Get(link, "url", Empty)
        target == Get(link, "count", 0)
    IN  /\ url # Empty
        /\ Get(usage, url, 0) < target

\* Whether one bank entry passes the test of _get_eligible_links.
IsEligible(link, usage) ==
    LET url == Get(link, "url", Empty)
        target == Get(link, "count", 0)
    IN  /\ url # Empty
        /\ \/ target = 0
           \/ Get(usage, url, 0) < target

\* Mutant: each passing entry is put at the front of the result.
_get_eligible_links_Prepend(links, usage) ==
    LET kept == SelectSeq(links, LAMBDA link : IsEligible(link, usage))
    IN  [i \in DOMAIN kept |-> kept[Len(kept) + 1 - i]]

\* _get_eligible_links: the bank entries that pass, in bank order.
_get_eligible_links(links, usage) ==
    SelectSeq(links, LAMBDA link : IsEligible(link, usage))

\* random.sample(population, k): the orders in which k distinct positions of
\* the population may be drawn.
RandomSample(population, k) ==
    {pos \in [1..k -> DOMAIN population] :
        \A i, j \in 1..k : i # j => pos[i] # pos[j]}

\* Mutant: positions are drawn with replacement (random.choices).
_get_random_masking_links_Choices(masking, n) ==
    IF masking = <<>> THEN {<<>>}
    ELSE [1..Min(n, Len(masking)) -> DOMAIN masking]

\* _get_random_masking_links(n): the position sequences the call may draw;
\* the only one is the empty sequence when the bank is empty.
_get_random_masking_links(masking, n) ==
    IF masking = <<>> THEN {<<>>}
    ELSE RandomSample(masking, Min(n, Len(masking)))

\* The entries a drawn position sequence stands for.
SampleEntries(masking, pos) == [i \in DOMAIN pos |-> masking[pos[i]]]

\* The usage loop shared by generate_page and add_links_to_existing: for each
\* link of the list, in order, a non-empty url found in the content gets its
\* count incremented.
RECURSIVE TrackUsage(_, _, _)
TrackUsage(links, content, usage) ==
    IF links = <<>> THEN usage
    ELSE LET url == Get(Head(links), "url", Empty)
             next == IF url # Empty /\ Contains(content, url)
                     THEN [u \in DOMAIN usage \cup {url} |->
                              IF u = url THEN Get(usage, url, 0) + 1 ELSE usage[u]]
                     ELSE usage
         IN  TrackUsage(Tail(links), content, next)

\* Mutant: every URL found in the answer is counted, in the bank or not.
generate_page_usage_AnyUrl(links, usage, content) ==
    TrackUsage(<<[url |-> UrlShort], [url |-> UrlLong]>>, content, usage)

\* The accounting of generate_page after a model answer: the links eligible
\* now are walked and those found in the answer are counted.
generate_page_usage(links, usage, content) ==
    TrackUsage(_get_eligible_links(links, usage), content, usage)

\* Mutant: the offered links are counted whatever the mode.
add_links_usage_AnyMode(mode, links, content, usage) ==
    TrackUsage(links, content, usage)

\* The accounting of add_links_to_existing after a model answer: only in
\* mode add_operator are the offered links counted.
add_links_usage(mode, links, content, usage) ==
    IF mode = "add_operator" THEN TrackUsage(links, content, usage) ELSE usage

\* ', '.join(f'"{a}"' for a in anchors)
RECURSIVE AnchorStr(_)
AnchorStr(anchors) ==
    IF anchors = <<>> THEN <<>>
    ELSE <<"\"", Head(anchors), "\"">>
             \o (IF Tail(anchors) = <<>> THEN <<>> ELSE <<", ">> \o AnchorStr(Tail(anchors)))

\* The '- URL: ...' lines of a link list; an entry without url or without
\* anchors is left out.
RECURSIVE LinkLines(_)
LinkLines(links) ==
    IF links = <<>> THEN <<>>
    ELSE LET url == Get(Head(links), "url", Empty)
             anchors == Get(Head(links), "anchors", <<>>)
             line == IF url # Empty /\ anchors # <<>>
                     THEN <<"- URL: ">> \o url \o <<" (anchor options: ">>
                              \o AnchorStr(anchors) \o <<")", "\n">>
                     ELSE <<>>
         IN  line \o LinkLines(Tail(links))

\* The three notations the syntax notes speak of, each a token of its own.
AnchorTag == "<a href=\"URL\">anchor</a>"
BracketUrl == "[https://full-url-here.com/path/ anchor text]"
DoubleBracket == "[["

\* Mutant: the bracket note whatever the format.
SectionSyntaxNote_AlwaysBracket(fmt) ==
    <<"Format: ", BracketUrl, ". ", "NEVER use ", DoubleBracket, "anchor text]]", "\n">>

\* The syntax note of _build_links_section for the content format.
SectionSyntaxNote(fmt) ==
    IF fmt = "confluence"
    THEN <<"These are EXTERNAL links - use ", AnchorTag, " format. ",
           "Do NOT use <ac:link> for these.", "\n">>
    ELSE <<"SYNTAX: Each link MUST include the full URL from the list below. ",
           "Format: ", BracketUrl, ". ",
           "Example: [https://www.sunvegascasino.com/deposits/visa/ visa casino]. ",
           "NEVER use ", DoubleBracket, "anchor text]] or ", DoubleBracket,
           "anchor text|display]] syntax for these - ",
           "that creates broken internal wiki links. ",
           "Always use [URL anchor] with the full URL.", "\n">>

\* _build_links_section, given the masking entries its sampling call drew:
\* empty when no link is eligible, else the link-bank section followed, when
\* the sample is not empty, by the masking section.
_build_links_section(links, usage, fmt, masking_sample) ==
    LET eligible == _get_eligible_links(links, usage)
    IN  IF eligible = <<>> THEN Empty
        ELSE <<"\n", "## Global Link Bank (External Links)", "\n",
               "You MUST embed these links INLINE within the body paragraphs of the article, not in the External Links section at the bottom. ",
               "Use only the provided anchor text options. Only include links that are contextually relevant to this page topic.",
               "\n",
               "IMPORTANT: Do NOT place these links in the == External Links == section. ",
               "They must appear as inline hyperlinks within the article body text.",
               "\n">>
                 \o SectionSyntaxNote(fmt)
                 \o LinkLines(eligible)
                 \o (IF masking_sample # <<>>
                     THEN <<"\n", "## Natural Reference Links", "\n",
                            "Include 1-2 of these non-commercial reference links where contextually appropriate. ",
                            "Do NOT prioritise these over the links in the Global Link Bank above.",
                            "\n">>
                              \o SectionSyntaxNote(fmt)
                              \o LinkLines(masking_sample)
                     ELSE <<>>)

\* str.strip(): leading and trailing white space removed.
RECURSIVE LStrip(_)
LStrip(text) ==
    IF text # <<>> /\ Head(text) = " " THEN LStrip(Tail(text)) ELSE text

RECURSIVE RStrip(_)
RStrip(text) ==
    IF text # <<>> /\ text[Len(text)] = " "
    THEN RStrip(SubSeq(text, 1, Len(text) - 1)) ELSE text

Strip(text) == RStrip(LStrip(text))

\* The metadata comment generate_page puts before the content.
Metadata(page) ==
    <<"<!--", "Generated: ", "<now>", "Page: ">> \o page.title
        \o <<"Category: ", Get(page, "category", "General"),
             "Generator: OpenAI GPT-4o", "-->", "\n">>

\* What generate_page returns for a model answer.
GeneratedContent(page, content) == Metadata(page) \o Strip(content)

\* Mutant: the masking bank is sampled whether or not a link is eligible.
generate_page_draws_Always(self) ==
    _get_random_masking_links(self.masking_links, SampleSize)

\* The position sequences the sampling call of generate_page may draw: the
\* masking bank is sampled only when a link is eligible.
generate_page_draws(self) ==
    IF _get_eligible_links(self.global_links, self.link_usage) = <<>>
    THEN {<<>>}
    ELSE _get_random_masking_links(self.masking_links, SampleSize)

\* Mutant: the links offered are counted as used when the prompt is built,
\* before the model is called.
generate_page_CountsOffered(self, page, pos, out) ==
    [called_model |-> TRUE,
     raised |-> out.raised,
     section |-> _build_links_section(self.global_links, self.link_usage,
                                      self.content_format,
                                      SampleEntries(self.masking_links, pos)),
     link_usage |-> generate_page_usage(self.global_links, self.link_usage,
                        LinkLines(_get_eligible_links(self.global_links,
                                                      self.link_usage))),
     result |-> IF out.raised THEN Empty ELSE GeneratedContent(page, out.content)]

\* generate_page(page) for one draw `pos` and one model outcome `out`: the
\* section is built, the model is called, and the eligible links found in its
\* answer are recorded. A raising model call leaves the object as it was and
\* returns nothing.
generate_page(self, page, pos, out) ==
    LET sample == SampleEntries(self.masking_links, pos)
        section == _build_links_section(self.global_links, self.link_usage,
                                        self.content_format, sample)
    IN  [called_model |-> TRUE,
         raised |-> out.raised,
         section |-> section,
         link_usage |-> IF out.raised THEN self.link_usage
                        ELSE generate_page_usage(self.global_links, self.link_usage,
                                                 out.content),
         result |-> IF out.raised THEN Empty ELSE GeneratedContent(page, out.content)]

\* The syntax note of add_links_to_existing for the content format.
EditSyntaxNote(fmt) ==
    IF fmt = "confluence"
    THEN <<"Use ", AnchorTag, " format.">>
    ELSE <<"Format: ", BracketUrl, ". ",
           "NEVER use ", DoubleBracket, "anchor text]] wiki link syntax for these.">>

\* '\n'.join(link_lines): the link lines without a closing line break.
JoinedLinkLines(links) ==
    IF LinkLines(links) = <<>> THEN <<>>
    ELSE SubSeq(LinkLines(links), 1, Len(LinkLines(links)) - 1)

\* The rule of add_links_to_existing that protects the links of the other kind.
ProtectRule(mode) ==
    <<"- Do NOT change existing content, structure, headings, or tables", "\n",
      "- Do NOT remove, move, or alter any existing ",
      IF mode = "add_masking" THEN "commercial/operator" ELSE "non-commercial reference",
      " links in the article - leave them exactly as they are">>

\* The user prompt add_links_to_existing sends with the links it offers.
edit_prompt(fmt, mode, links, existing_content) ==
    <<"Here is an existing wiki article. Add ",
      IF mode = "add_masking" THEN "1-2" ELSE "all contextually relevant",
      " of these ",
      IF mode = "add_masking" THEN "non-commercial reference" ELSE "external",
      " links inline within the body text where contextually appropriate.",
      "\n", "\n", "RULES:", "\n">>
        \o ProtectRule(mode)
        \o <<"\n",
             "- Only ADD the new links by weaving anchor text into existing sentences or adding brief natural phrases",
             "\n", "- Do NOT place links in the External Links or See Also sections",
             "\n", "- ">>
        \o EditSyntaxNote(fmt)
        \o <<"\n", "- Output ONLY the modified article, no explanations",
             "\n", "\n", "Links to add:", "\n">>
        \o JoinedLinkLines(links)
        \o <<"\n", "\n", "Existing article:", "\n">>
        \o existing_content

\* The position sequences the sampling call of add_links_to_existing may draw
\* (none is drawn in mode add_operator).
add_links_draws(self, mode) ==
    IF mode = "add_masking"
    THEN _get_random_masking_links(self.masking_links, SampleSize)
    ELSE {<<>>}

\* Mutant: the model is asked even when there is no link to add.
add_links_to_existing_AlwaysCalls(self, existing_content, mode, pos, out) ==
    [called_model |-> TRUE, raised |-> out.raised, section |-> Empty,
     link_usage |-> self.link_usage,
     result |-> IF out.raised THEN Empty ELSE out.content]

\* add_links_to_existing(existing_content, page, mode) for one draw and one
\* model outcome: with no link to add the content comes back as it is and the
\* model is not called; else the model's answer is returned, and in mode
\* add_operator the offered links found in it are recorded.
add_links_to_existing(self, existing_content, mode, pos, out) ==
    LET links == IF mode = "add_masking"
                 THEN SampleEntries(self.masking_links, pos)
                 ELSE _get_eligible_links(self.global_links, self.link_usage)
    IN  IF links = <<>>
        THEN [called_model |-> FALSE, raised |-> FALSE, section |-> Empty,
              link_usage |-> self.link_usage, result |-> existing_content]
        ELSE [called_model |-> TRUE, raised |-> out.raised, section |-> Empty,
              link_usage |-> IF out.raised THEN self.link_usage
                             ELSE add_links_usage(mode, links, out.content,
                                                  self.link_usage),
              result |-> IF out.raised THEN Empty ELSE out.content]

\* --------------------------------------------------------------- inputs
\* Longest masking bank handed to set_masking_links.
MaxMask == 1

MaskEntries == [url : {Empty, UrlShort}, anchors : {<<"m">>}]
MaskBanks == SeqsUpTo(MaskEntries, MaxMask)

\* Longest masking bank and largest n of the sampling specification.
MaxSampleBank == 3
MaxSampleN == 4

SampleEntries3 == [url : {Empty, <<"m1">>, <<"m2">>}]
SampleBanks == SeqsUpTo(SampleEntries3, MaxSampleBank)

Formats == {"mediawiki", "confluence"}

\* The content_format argument and the content_format key of pages.yaml as
\* the constructor may meet them; "" stands for None or an absent key.
GivenFormats == {"", "miraheze", "mediawiki", "confluence", "Confluence"}
ConfigFormats == {"", "confluence"}

\* str.lower() on the format names.
LowerFormat(f) == IF f = "Confluence" THEN "confluence" ELSE f

\* self.content_format as __init__ sets it.
NormalFormat(given, configured) ==
    LET f == LowerFormat(IF given # "" THEN given
                         ELSE IF configured # "" THEN configured
                         ELSE "mediawiki")
    IN  IF f \in {"miraheze", "mediawiki"} THEN "mediawiki" ELSE f

\* What a chat-completion call may do: raise, or answer with a text.
ModelOutcomes ==
    {[raised |-> TRUE, content |-> Empty]}
        \cup {[raised |-> FALSE, content |-> r] : r \in Responses}

ThePage == [title |-> <<"T">>, category |-> "General"]
ExistingContent == <<"old">>

\* ------------------------------------------------------ web application
\* Batches started (start_generation requests accepted) in one exploration.
MaxBatches == 2
\* Pages (selected and live together) submitted over all batches.
MaxPages == 2

\* str.lower() on the letters used in titles.
LowerChar(c) == IF c = "A" THEN "a" ELSE IF c = "B" THEN "b" ELSE c
Lower(text) == [i \in DOMAIN text |-> LowerChar(text[i])]

\* str.replace(old, new) for one-character old and new.
ReplaceChar(text, old, new) ==
    [i \in DOMAIN text |-> IF text[i] = old THEN new ELSE text[i]]

\* The file a page is written to: title.replace(' ', '_').replace('/', '_')
\* followed by the extension of the format.
Extension(fmt) == IF fmt = "confluence" THEN ".html" ELSE ".wiki"
FileName(title, fmt) ==
    Append(ReplaceChar(ReplaceChar(title, " ", "_"), "/", "_"), Extension(fmt))

\* pages.yaml of the project: one configured page.
PagesYaml == <<[title |-> <<"A">>, category |-> "General"]>>

\* links.yaml and masking_links.yaml of the project.
LinksYaml == <<[url |-> UrlShort, anchors |-> <<"a">>, count |-> 1]>>
MaskingYaml == <<[url |-> UrlLong, anchors |-> <<"m">>]>>

\* Titles a request may name: the configured page and one that is not.
ReqTitles == {<<"A">>, <<"B">>}
Modes == {"full", "add_masking", "add_operator"}

\* The requests start_generation accepts: an API key, at least one page.
Requests ==
    {r \in [pages : SeqsUpTo(ReqTitles, MaxPages),
            live_pages : SeqsUpTo(ReqTitles, MaxPages),
            mode : Modes] :
        /\ Len(r.pages) + Len(r.live_pages) >= 1
        /\ Len(r.pages) + Len(r.live_pages) <= MaxPages}

\* What the model answers in a batch: a text without the bank URL, or one
\* holding it; or the call raises.
BatchOutcomes ==
    {[raised |-> TRUE, content |-> Empty],
     [raised |-> FALSE, content |-> Empty],
     [raised |-> FALSE, content |-> <<"x", " ">>]}

\* What adapter.get_page(title) returns: None, or the page's text.
NoContent == <<>>
LiveContents == {NoContent, <<"live">>}

\* generator.get_page_by_title(title): the first configured page whose
\* lower-cased title is the lower-cased, stripped title asked for; the empty
\* sequence stands for None.
get_page_by_title(pages, title) ==
    SelectSeq(pages, LAMBDA page : Lower(page.title) = Strip(Lower(title)))

\* int((done / total) * 100)
Percent(done, total) == (done * 100) \div total

\* total_pages of start_generation.
TotalPages(r) ==
    Len(r.pages) + (IF r.mode # "full" THEN Len(r.live_pages) ELSE 0)

\* The progress record start_generation stores.
NewProgress(r) ==
    [status |-> "starting", total |-> TotalPages(r), completed |-> 0,
     current_page |-> Empty, percent |-> 0, success |-> <<>>, failed |-> <<>>]

\* The worker thread start_generation starts: its arguments, where it is in
\* run_generation, its generator, the model calls it has made, and the kind
\* of end each page it handled came to.
NewThread(r) ==
    [pc |-> "spawned", rec |-> 0, pages |-> r.pages, live_pages |-> r.live_pages,
     mode |-> r.mode, i |-> 0, j |-> 0, logged_in |-> FALSE, loaded |-> FALSE,
     global_links |-> <<>>, link_usage |-> <<>>, masking_links |-> <<>>,
     content_format |-> "mediawiki", calls |-> 0, events |-> <<>>]

\* Mutant: an edit pass turns to its live pages before its local pages are
\* through.
AfterLocal_LiveEarly(t, done) ==
    IF t.live_pages # <<>> /\ t.mode \in {"add_masking", "add_operator"}
    THEN "login"
    ELSE IF done < Len(t.pages) THEN "local" ELSE "finish"

\* Where run_generation goes once `done` local pages are handled.
AfterLocal(t, done) ==
    IF done < Len(t.pages) THEN "local"
    ELSE IF t.live_pages # <<>> /\ t.mode \in {"add_masking", "add_operator"}
         THEN "login"
         ELSE "finish"

\* Where run_generation goes once `done` live pages are handled.
AfterLive(t, done) == IF done < Len(t.live_pages) THEN "live" ELSE "finish"

\* ------------------------------------------------- one generator instance
VARIABLES
    global_links,     \* self.global_links
    link_usage,       \* self.link_usage (a dict: url -> count)
    masking_links,    \* self.masking_links
    attrs,            \* which of link_usage / masking_links were ever assigned
    content_format,   \* self.content_format
    last              \* the last call: its arguments, what it drew, what it returned

genVars == <<global_links, link_usage, masking_links, attrs, content_format, last>>

NoCall ==
    [op |-> "none", usage_before |-> <<>>, raised |-> FALSE, called_model |-> FALSE,
     content |-> Empty, n |-> 0, sample |-> <<>>, section |-> Empty, result |-> Empty]

\* getattr(self, 'masking_links', [])
MaskingAttr == IF "masking_links" \in attrs THEN masking_links ELSE <<>>

\* The generator is used as its two callers use it: the command line never
\* loads a bank, a web batch loads the link bank and then the masking bank
\* before its first page. Further calls are explored while every usage count
\* is below MaxUsage.
CanCall ==
    /\ attrs \in {{}, {"link_usage", "masking_links"}}
    /\ \A u \in DOMAIN link_usage : link_usage[u] < MaxUsage

\* The web application's state (app.py), idle while a generator is used alone.
VARIABLES
    progress_store,   \* progress_store[project_id]: 0 (no entry) or the record stored last
    recs,             \* the progress records ever stored, in order of creation
    thr,              \* the worker threads ever started, in order of creation
    files,            \* the project's generated directory: file name -> content
    up                \* the upload under way: its worker, its place, what it did

appVars == <<progress_store, recs, thr, files, up>>

vars == <<global_links, link_usage, masking_links, attrs, content_format, last,
          progress_store, recs, thr, files, up>>

\* No upload was asked for.
NoUpload ==
    [worker |-> "none", names |-> <<>>, i |-> 0, pc |-> "idle", status |-> "",
     completed |-> <<>>, failed |-> <<>>, percent |-> 0, log |-> <<>>]

\* WikiContentGenerator.__init__, the format left at its default.
GenInit ==
    /\ global_links = <<>>
    /\ link_usage = <<>>
    /\ masking_links = <<>>
    /\ attrs = {}
    /\ content_format = "mediawiki"
    /\ last = NoCall

\* generator.set_global_links(links), called once per generator, before
\* its first page.
SetGlobalLinks ==
    /\ attrs = {}
    /\ last.op \in {"none", "system_prompt", "page_prompt"}
    /\ \E links \in Banks :
          /\ global_links' = set_global_links(links).global_links
          /\ link_usage' = set_global_links(links).link_usage
    /\ attrs' = attrs \cup {"link_usage"}
    /\ UNCHANGED <<masking_links, content_format, last>>
    /\ UNCHANGED appVars

\* generator.set_masking_links(links), called once per generator, after
\* set_global_links.
SetMaskingLinks ==
    /\ attrs = {"link_usage"}
    /\ \E links \in MaskBanks : masking_links' = set_masking_links(links)
    /\ attrs' = attrs \cup {"masking_links"}
    /\ UNCHANGED <<global_links, link_usage, content_format, last>>
    /\ UNCHANGED appVars

\* generator.set_masking_links(links) for the sampling specification, called
\* (if at all) before the first sample is drawn.
SampleLoad ==
    /\ attrs = {}
    /\ last.op = "none"
    /\ \E links \in SampleBanks : masking_links' = set_masking_links(links)
    /\ attrs' = {"masking_links"}
    /\ UNCHANGED <<global_links, link_usage, content_format, last>>
    /\ UNCHANGED appVars

\* generator._get_random_masking_links(n), on a bank that was loaded or never
\* set.
SampleCall ==
    /\ \E n \in 0..MaxSampleN :
       \E pos \in _get_random_masking_links(MaskingAttr, n) :
          last' = [NoCall EXCEPT !.op = "sample", !.n = n, !.sample = pos,
                                 !.result = SampleEntries(MaskingAttr, pos)]
    /\ UNCHANGED <<global_links, link_usage, masking_links, attrs, content_format>>
    /\ UNCHANGED appVars

\* The generator object as the pure operators below take it.
Self ==
    [global_links |-> global_links, link_usage |-> link_usage,
     masking_links |-> MaskingAttr, content_format |-> content_format]

\* generator.generate_page(page).
GeneratePage ==
    /\ CanCall
    /\ \E out \in ModelOutcomes :
       \E pos \in generate_page_draws(Self) :
          LET call == generate_page(Self, ThePage, pos, out)
          IN  /\ link_usage' = call.link_usage
              /\ last' = [op |-> "generate_page", usage_before |-> link_usage,
                          raised |-> call.raised, called_model |-> call.called_model,
                          content |-> out.content, n |-> SampleSize, sample |-> pos,
                          section |-> call.section, result |-> call.result]
    /\ UNCHANGED <<global_links, masking_links, attrs, content_format>>
    /\ UNCHANGED appVars

\* generator.add_links_to_existing(existing_content, page, mode).
AddLinksToExisting(mode) ==
    /\ CanCall
    /\ \E out \in ModelOutcomes :
       \E pos \in add_links_draws(Self, mode) :
          LET call == add_links_to_existing(Self, ExistingContent, mode, pos, out)
          IN  /\ call.called_model \/ (out.content = Empty /\ ~out.raised)
              /\ link_usage' = call.link_usage
              /\ last' = [op |-> mode, usage_before |-> link_usage,
                          raised |-> call.raised, called_model |-> call.called_model,
                          content |-> IF call.called_model THEN out.content ELSE Empty,
                          n |-> SampleSize, sample |-> pos,
                          section |-> Empty, result |-> call.result]
    /\ UNCHANGED <<global_links, masking_links, attrs, content_format>>
    /\ UNCHANGED appVars

\* ---------------------------------------------- generation batches (app.py)
\* The application after start-up: no progress entry, no worker; the project
\* directory holds no generated file, or the configured page's from before.
AppInit ==
    /\ progress_store = 0
    /\ recs = <<>>
    /\ thr = <<>>
    /\ files \in {<<>>, FileName(<<"A">>, "mediawiki") :> <<"old">>}
    /\ up = NoUpload

\* Pages submitted by the batches started so far.
RECURSIVE PagesOf(_)
PagesOf(threads) ==
    IF threads = <<>> THEN 0
    ELSE Len(Head(threads).pages) + Len(Head(threads).live_pages)
             + PagesOf(Tail(threads))

\* The two statements that close a loop iteration: completed is stored, then
\* percent; with a total of 0 the division raises, outside the per-page try,
\* and the outer handler sets status 'error'.
Counted(p, done) ==
    IF p.total = 0
    THEN [p EXCEPT !.completed = done, !.status = "error"]
    ELSE [p EXCEPT !.completed = done, !.percent = Percent(done, p.total)]

\* start_generation: the project's progress entry is replaced by a new record
\* and a worker thread is started.
StartGeneration ==
    /\ Len(thr) < MaxBatches
    /\ \E r \in Requests :
          /\ PagesOf(thr) + Len(r.pages) + Len(r.live_pages) <= MaxPages
          /\ recs' = Append(recs, NewProgress(r))
          /\ progress_store' = Len(recs) + 1
          /\ thr' = Append(thr, NewThread(r))
    /\ UNCHANGED <<files, up, genVars>>

\* ------------------------------------------- requests and API keys
\* The JSON bodies posted to start_generation, with and without an API key
\* and pages, and with a mode the application does not know.
StartKeys == {Empty, <<"k">>}
StartPages == {<<>>, << <<"A">> >>}
StartModes == {"full", "add_masking", "bogus"}

\* Mutant: the API key is not looked at.
start_generation_error_NoKeyCheck(api_key, selected_pages, live_pages) ==
    IF selected_pages = <<>> /\ live_pages = <<>> THEN <<"No pages selected">>
    ELSE Empty

\* The error start_generation answers with, empty when it accepts the request.
start_generation_error(api_key, selected_pages, live_pages) ==
    IF api_key = Empty THEN <<"API key is required">>
    ELSE IF selected_pages = <<>> /\ live_pages = <<>> THEN <<"No pages selected">>
    ELSE Empty

\* if mode not in ('full', 'add_masking', 'add_operator'): mode = 'full'
NormalMode(mode) == IF mode \in Modes THEN mode ELSE "full"

\* start_generation on any body: the request is refused with an error, or
\* a progress record is stored and a worker started. `last` keeps the
\* request and the answer.
HandleStart ==
    /\ Len(thr) < MaxBatches
    /\ \E api_key \in StartKeys, pages \in StartPages, live \in StartPages,
          mode \in StartModes :
          LET error == start_generation_error(api_key, pages, live)
              r == [pages |-> pages, live_pages |-> live, mode |-> NormalMode(mode)]
          IN  /\ PagesOf(thr) + Len(pages) + Len(live) <= MaxPages
              /\ last' = [NoCall EXCEPT !.op = "start_generation",
                                        !.content = api_key,
                                        !.sample = <<pages, live>>,
                                        !.raised = (error # Empty),
                                        !.result = error]
              /\ IF error # Empty
                 THEN UNCHANGED <<recs, progress_store, thr>>
                 ELSE /\ recs' = Append(recs, NewProgress(r))
                      /\ progress_store' = Len(recs) + 1
                      /\ thr' = Append(thr, NewThread(r))
    /\ UNCHANGED <<files, up, global_links, link_usage, masking_links, attrs,
                   content_format>>

\* Where an API key may come from: the argument, the OPENAI_API_KEY variable,
\* the openai_api_key of config.json; Empty stands for none.
KeySources == [arg : StartKeys, env : StartKeys, file : StartKeys]

\* _init_openai(api_key): the key it settles on, or a ValueError.
_init_openai(arg, env, file) ==
    LET first == IF arg # Empty THEN arg ELSE env
        key == IF first # Empty THEN first ELSE file
    IN  [raised |-> (key = Empty), key |-> key]

\* WikiContentGenerator(...) up to the client: no model call is part of it.
ConstructGenerator ==
    /\ \E k \in KeySources :
          last' = [NoCall EXCEPT !.op = "init_openai",
                                 !.sample = <<k.arg, k.env, k.file>>,
                                 !.raised = _init_openai(k.arg, k.env, k.file).raised,
                                 !.content = _init_openai(k.arg, k.env, k.file).key]
    /\ UNCHANGED <<global_links, link_usage, masking_links, attrs, content_format>>
    /\ UNCHANGED appVars

StartNext == HandleStart \/ ConstructGenerator


\* A generator whose usage counts are those of the batch started before it,
\* as if link_usage belonged to the class and not to the instance.
NewGenerator_SharedUsage(threads, b) ==
    [global_links |-> set_global_links(LinksYaml).global_links,
     link_usage |-> IF b > 1 /\ threads[b - 1].loaded
                    THEN threads[b - 1].link_usage
                    ELSE set_global_links(LinksYaml).link_usage,
     masking_links |-> set_masking_links(MaskingYaml)]

\* The generator of batch b: WikiContentGenerator(...) followed by
\* set_global_links and set_masking_links on the project's two bank files.
NewGenerator(threads, b) ==
    [global_links |-> set_global_links(LinksYaml).global_links,
     link_usage |-> set_global_links(LinksYaml).link_usage,
     masking_links |-> set_masking_links(MaskingYaml)]

\* run_generation up to its first page: the thread takes the record that is
\* in progress_store now, then constructs its generator and loads both banks.
\* A failure of that (the configuration cannot be loaded) ends the batch with
\* status 'error'.
Begin(b) ==
    LET t == thr[b]
        r == progress_store
        g == NewGenerator(thr, b)
    IN  /\ t.pc = "spawned"
        /\ \E ok \in BOOLEAN :
              IF ok
              THEN /\ thr' = [thr EXCEPT ![b] =
                         [t EXCEPT !.rec = r, !.loaded = TRUE,
                                   !.global_links = g.global_links,
                                   !.link_usage = g.link_usage,
                                   !.masking_links = g.masking_links,
                                   !.pc = AfterLocal(t, 0)]]
                   /\ recs' = recs
              ELSE /\ thr' = [thr EXCEPT ![b] = [t EXCEPT !.rec = r, !.pc = "done"]]
                   /\ recs' = [recs EXCEPT ![r].status = "error"]
        /\ UNCHANGED <<progress_store, files, up, genVars>>

\* Mutant: an edit pass that meets a page without a generated file asks the
\* model all the same and saves an empty file for the page.
LocalPage_EditsMissing(b) ==
    LET t == thr[b]
        title == t.pages[t.i + 1]
        name == FileName(title, t.content_format)
    IN  /\ t.pc = "local"
        /\ get_page_by_title(PagesYaml, title) # <<>>
        /\ t.mode \in {"add_masking", "add_operator"} /\ name \notin DOMAIN files
        /\ recs' = [recs EXCEPT ![t.rec].failed = Append(@, title)]
        /\ thr' = [thr EXCEPT ![b] =
                      [t EXCEPT !.i = t.i + 1, !.pc = AfterLocal(t, t.i + 1),
                                !.calls = @ + 1, !.events = Append(@, "no_file")]]
        /\ files' = [n \in DOMAIN files \cup {name} |->
                        IF n = name THEN Empty ELSE files[n]]
        /\ UNCHANGED <<progress_store, up, genVars>>

\* One iteration of the loop over selected_pages.
LocalPage(b) ==
    LET t == thr[b]
        r == t.rec
        title == t.pages[t.i + 1]
        found == get_page_by_title(PagesYaml, title)
        name == FileName(title, t.content_format)
        started == [recs[r] EXCEPT !.current_page = title, !.status = "generating"]
        moved == [t EXCEPT !.i = t.i + 1, !.pc = AfterLocal(t, t.i + 1)]
        counted(p) == Counted(p, t.i + 1)
        ended == IF recs[r].total = 0 THEN [moved EXCEPT !.pc = "done"] ELSE moved
    IN  /\ t.pc = "local"
        /\ IF found = <<>>
           THEN \* the title is not configured: failed, no progress update
                /\ recs' = [recs EXCEPT ![r] =
                               [started EXCEPT !.failed = Append(@, title)]]
                /\ thr' = [thr EXCEPT ![b] =
                              [moved EXCEPT !.events = Append(@, "not_configured")]]
                /\ files' = files
           ELSE IF t.mode \in {"add_masking", "add_operator"} /\ name \notin DOMAIN files
           THEN \* edit pass without a file: failed, counted against the
                \* number of selected pages
                /\ recs' = [recs EXCEPT ![r] =
                               [started EXCEPT !.failed = Append(@, title),
                                               !.completed = t.i + 1,
                                               !.percent = Percent(t.i + 1, Len(t.pages))]]
                /\ thr' = [thr EXCEPT ![b] =
                              [moved EXCEPT !.events = Append(@, "no_file")]]
                /\ files' = files
           ELSE \E out \in BatchOutcomes :
                \E pos \in (IF t.mode = "full" THEN generate_page_draws(t)
                            ELSE add_links_draws(t, t.mode)) :
                   LET call == IF t.mode = "full"
                               THEN generate_page(t, found[1], pos, out)
                               ELSE add_links_to_existing(t, files[name], t.mode, pos, out)
                   IN  IF call.raised
                       THEN /\ recs' = [recs EXCEPT ![r] =
                                   counted([started EXCEPT !.failed = Append(@, title)])]
                            /\ thr' = [thr EXCEPT ![b] =
                                   [ended EXCEPT !.link_usage = call.link_usage, !.calls = @ + 1,
                                          !.events = Append(@, "raised")]]
                            /\ files' = files
                       ELSE /\ recs' = [recs EXCEPT ![r] =
                                   counted([started EXCEPT !.success = Append(@, title)])]
                            /\ thr' = [thr EXCEPT ![b] =
                                   [ended EXCEPT !.link_usage = call.link_usage,
                                                 !.calls = @ + (IF call.called_model THEN 1 ELSE 0),
                                                 !.events = Append(@, "saved")]]
                            /\ files' = [n \in DOMAIN files \cup {name} |->
                                            IF n = name THEN call.result ELSE files[n]]
        /\ UNCHANGED <<progress_store, up, genVars>>

\* get_adapter(project) and adapter.login() before the live pages: the login
\* succeeds, fails, or raises; an exception is caught by the outer handler of
\* run_generation only.
Login(b) ==
    LET t == thr[b]
    IN  /\ t.pc = "login"
        /\ \E outcome \in {"ok", "failed", "raised"} :
              IF outcome = "raised"
              THEN /\ recs' = [recs EXCEPT ![t.rec].status = "error"]
                   /\ thr' = [thr EXCEPT ![b] = [t EXCEPT !.pc = "done"]]
              ELSE /\ recs' = recs
                   /\ thr' = [thr EXCEPT ![b] =
                                 [t EXCEPT !.logged_in = (outcome = "ok"),
                                           !.pc = AfterLive(t, 0)]]
        /\ UNCHANGED <<progress_store, files, up, genVars>>

\* One iteration of the loop over live_pages.
LivePage(b) ==
    LET t == thr[b]
        r == t.rec
        title == t.live_pages[t.j + 1]
        name == FileName(title, t.content_format)
        started == [recs[r] EXCEPT !.current_page = title, !.status = "generating"]
        moved == [t EXCEPT !.j = t.j + 1, !.pc = AfterLive(t, t.j + 1)]
        counted(p) == Counted(p, Len(t.pages) + t.j + 1)
        ended == IF recs[r].total = 0 THEN [moved EXCEPT !.pc = "done"] ELSE moved
    IN  /\ t.pc = "live"
        /\ IF ~t.logged_in
           THEN /\ recs' = [recs EXCEPT ![r] =
                               [started EXCEPT !.failed = Append(@, title)]]
                /\ thr' = [thr EXCEPT ![b] =
                              [moved EXCEPT !.events = Append(@, "not_logged_in")]]
                /\ files' = files
           ELSE \E existing \in LiveContents :
                IF existing = NoContent
                THEN /\ recs' = [recs EXCEPT ![r] =
                                    [started EXCEPT !.failed = Append(@, title)]]
                     /\ thr' = [thr EXCEPT ![b] =
                                   [moved EXCEPT !.events = Append(@, "no_content")]]
                     /\ files' = files
                ELSE \E out \in BatchOutcomes :
                     \E pos \in add_links_draws(t, t.mode) :
                        LET call == add_links_to_existing(t, existing, t.mode, pos, out)
                        IN  IF call.raised
                            THEN /\ recs' = [recs EXCEPT ![r] =
                                        counted([started EXCEPT !.failed = Append(@, title)])]
                                 /\ thr' = [thr EXCEPT ![b] =
                                        [ended EXCEPT !.link_usage = call.link_usage, !.calls = @ + 1,
                                          !.events = Append(@, "raised")]]
                                 /\ files' = files
                            ELSE /\ recs' = [recs EXCEPT ![r] =
                                        counted([started EXCEPT !.success = Append(@, title)])]
                                 /\ thr' = [thr EXCEPT ![b] =
                                        [ended EXCEPT !.link_usage = call.link_usage,
                                                 !.calls = @ + (IF call.called_model THEN 1 ELSE 0),
                                                      !.events = Append(@, "saved")]]
                                 /\ files' = [n \in DOMAIN files \cup {name} |->
                                                 IF n = name THEN call.result ELSE files[n]]
        /\ UNCHANGED <<progress_store, up, genVars>>

\* The end of run_generation: status 'complete'.
Finish(b) ==
    LET t == thr[b]
    IN  /\ t.pc = "finish"
        /\ recs' = [recs EXCEPT ![t.rec].status = "complete",
                                ![t.rec].current_page = Empty]
        /\ thr' = [thr EXCEPT ![b] = [t EXCEPT !.pc = "done"]]
        /\ UNCHANGED <<progress_store, files, up, genVars>>

\* ------------------------------------------------------ prompt builders
\* Configurations and page specifications handed to the prompt builders; a
\* key that is absent is absent from the record.
PromptConfigs ==
    {[wiki_name |-> <<"W">>, default_category |-> <<"D">>,
      style |-> [tone |-> <<"t">>, include |-> << <<"i">> >>, avoid |-> << <<"v">> >>]],
     [pages |-> <<>>]}
PromptPages ==
    {[title |-> <<"T">>],
     [title |-> <<"T">>, category |-> <<"C">>, description |-> <<"d">>,
      key_points |-> << <<"k">> >>, related_pages |-> << <<"R">> >>,
      external_links |-> << <<"e">> >>, format |-> <<"f">>]}
SpaceKeys == {Empty, <<"SP">>}

\* for item in items: prompt += f"{lead}{item}{tail}\n"
RECURSIVE ItemLines(_, _, _)
ItemLines(items, lead, tail) ==
    IF items = <<>> THEN <<>>
    ELSE <<lead>> \o Head(items) \o <<tail, "\n">> \o ItemLines(Tail(items), lead, tail)

\* str.replace(old, new) on a text whose tokens are the units replaced.
ReplaceToken(text, old, new) ==
    [i \in DOMAIN text |-> IF text[i] = old THEN new ELSE text[i]]

\* build_system_prompt(config, content_format, space_key). The closing block
\* is not an f-string: the space key is not put into it.
build_system_prompt(config, fmt, space_key) ==
    LET style == Get(config, "style", <<>>)
    IN  <<"You are an expert wiki content writer creating pages for the \"">>
            \o Get(config, "wiki_name", <<"Wiki">>)
            \o <<"\".", "\n",
                 IF fmt = "confluence"
                 THEN "Your task is to generate high-quality Confluence Storage Format content (XHTML-compatible)."
                 ELSE "Your task is to generate high-quality MediaWiki-formatted content.",
                 "\n", "## Writing Style", "\n", "- Tone: ">>
            \o Get(style, "tone", <<"encyclopaedic, neutral">>)
            \o <<"\n",
                 IF fmt = "confluence"
                 THEN "- Format: Confluence Storage Format (NOT Markdown)"
                 ELSE "- Format: MediaWiki markup (NOT Markdown)",
                 "\n", "## Required Elements", "\n">>
            \o ItemLines(Get(style, "include", <<>>), "- ", "")
            \o <<"\n", "## Avoid", "\n">>
            \o ItemLines(Get(style, "avoid", <<>>), "- ", "")
            \o (IF fmt = "confluence"
                THEN <<"\n", "## Confluence Storage Format Reference", "\n",
                       "- Links: <a href=\"https://url.com\">Link Text</a>", "\n",
                       "## Important", "\n",
                       "<ac:link><ri:page ri:space-key=\"",
                       "{space_key or 'SPACE'}",
                       "\" ri:content-title=\"Page Title\"/></ac:link>", "\n">>
                ELSE <<"\n", "## MediaWiki Syntax Reference", "\n",
                       "- Internal links: ", DoubleBracket, "Page Name]] or ",
                       DoubleBracket, "Page Name|Display Text]]", "\n",
                       "- External links: [https://url.com Link Text]", "\n",
                       "## Important", "\n",
                       "- Always end with ", DoubleBracket, "Category:CategoryName]]",
                       "\n">>)

\* Mutant: the page prompt also lists the bank the generator holds now.
build_page_prompt_ReadsBank(page, config, fmt) ==
    <<"Generate a complete ", "MediaWiki page", " for: \"">> \o page.title
        \o LinkLines(global_links)

\* build_page_prompt(page, config, content_format).
build_page_prompt(page, config, fmt) ==
    LET base ==
            <<"Generate a complete ", "MediaWiki page", " for: \"">> \o page.title
                \o <<"\"", "\n", "## Page Details", "\n", "- Category: ">>
                \o Get(page, "category", Get(config, "default_category", <<"General">>))
                \o <<"\n", "- Description: ">>
                \o Get(page, "description", <<"No description provided">>)
                \o <<"\n", "## Key Points to Cover", "\n">>
                \o ItemLines(Get(page, "key_points", <<>>), "- ", "")
                \o (IF Get(page, "related_pages", <<>>) # <<>>
                    THEN <<"\n", "## Related Pages (for See Also section)", "\n">>
                             \o ItemLines(page.related_pages, "- [[", "]]")
                    ELSE <<>>)
                \o (IF Get(page, "external_links", <<>>) # <<>>
                    THEN <<"\n", "## External Links to Include", "\n">>
                             \o ItemLines(page.external_links, "- ", "")
                    ELSE <<>>)
                \o (IF Get(page, "format", <<>>) # <<>>
                    THEN <<"\n", "## Special Format Instructions", "\n">>
                             \o page.format \o <<"\n">>
                    ELSE <<>>)
    IN  IF fmt = "confluence"
        THEN ReplaceToken(base, "MediaWiki page", "Confluence page")
                 \o <<"\n", "## Output Requirements", "\n",
                      "1. Start with a brief lead paragraph (no heading)", "\n",
                      "2. Use <h2> section headings", "\n",
                      "3. Include at least one HTML table", "\n",
                      "4. End with <h2>See Also</h2> and <h2>External Links</h2>", "\n",
                      "5. Output ONLY the Confluence storage HTML, no explanations or code blocks",
                      "\n">>
        ELSE base
                 \o <<"\n", "## Output Requirements", "\n",
                      "1. Start with a brief lead paragraph (no heading)", "\n",
                      "2. Use == Section Headings ==", "\n",
                      "3. Include at least one {| class=\"wikitable\" |} table", "\n",
                      "4. End with == See Also ==, == External Links ==, and ",
                      DoubleBracket, "Category:">>
                 \o Get(page, "category", <<"General">>)
                 \o <<"]]", "\n",
                      "5. Output ONLY the wiki markup, no explanations or code blocks",
                      "\n">>

\* A call of build_system_prompt; `last` keeps the arguments and the result.
CallSystemPrompt ==
    /\ \E config \in PromptConfigs, fmt \in Formats, space_key \in SpaceKeys :
          last' = [NoCall EXCEPT
                      !.op = "system_prompt",
                      !.sample = <<config, <<>>, fmt, space_key>>,
                      !.result = build_system_prompt(config, fmt, space_key)]
    /\ UNCHANGED <<global_links, link_usage, masking_links, attrs, content_format>>
    /\ UNCHANGED appVars

\* A call of build_page_prompt.
CallPagePrompt ==
    /\ \E config \in PromptConfigs, page \in PromptPages, fmt \in Formats :
          last' = [NoCall EXCEPT
                      !.op = "page_prompt",
                      !.sample = <<config, page, fmt, Empty>>,
                      !.result = build_page_prompt(page, config, fmt)]
    /\ UNCHANGED <<global_links, link_usage, masking_links, attrs, content_format>>
    /\ UNCHANGED appVars

\* The prompt builders called at any time of a generator's life.
BuilderNext ==
    \/ SetGlobalLinks
    \/ CallSystemPrompt
    \/ CallPagePrompt

\* ------------------------------------------------ prompts of a generator
\* A generator constructed with any of the format arguments, no bank loaded.
PromptInit ==
    /\ global_links = <<>>
    /\ link_usage = <<>>
    /\ masking_links = <<>>
    /\ attrs = {}
    /\ content_format \in {NormalFormat(g, c) : g \in GivenFormats, c \in ConfigFormats}
    /\ last = NoCall
    /\ AppInit
    /\ files = <<>>

\* self._build_links_section(), as generate_page calls it.
BuildLinksSection ==
    /\ CanCall
    /\ \E pos \in generate_page_draws(Self) :
          last' = [NoCall EXCEPT
                      !.op = "links_section", !.usage_before = link_usage,
                      !.sample = pos,
                      !.section = _build_links_section(global_links, link_usage,
                                      content_format, SampleEntries(MaskingAttr, pos))]
    /\ UNCHANGED <<global_links, link_usage, masking_links, attrs, content_format>>
    /\ UNCHANGED appVars

\* The prompt add_links_to_existing builds when it has a link to offer.
BuildEditPrompt(mode) ==
    /\ CanCall
    /\ \E pos \in add_links_draws(Self, mode) :
          LET links == IF mode = "add_masking" THEN SampleEntries(MaskingAttr, pos)
                       ELSE _get_eligible_links(global_links, link_usage)
          IN  /\ links # <<>>
              /\ last' = [NoCall EXCEPT
                             !.op = mode, !.usage_before = link_usage, !.sample = pos,
                             !.section = edit_prompt(content_format, mode, links,
                                                     ExistingContent)]
    /\ UNCHANGED <<global_links, link_usage, masking_links, attrs, content_format>>
    /\ UNCHANGED appVars

PromptNext ==
    \/ SetGlobalLinks
    \/ SetMaskingLinks
    \/ BuildLinksSection
    \/ BuildEditPrompt("add_masking")
    \/ BuildEditPrompt("add_operator")

SpecPrompt == PromptInit /\ [][PromptNext]_vars

\* ------------------------------------------- the user prompt of a page
\* The anchor generate_page looks for in the page prompt.
Marker == "## Output Requirements"

\* Page specifications whose own text holds the words of the anchor.
InjectPages ==
    PromptPages
        \cup {[title |-> <<"T">>, description |-> <<Marker>>],
              [title |-> <<"T">>, key_points |-> << <<Marker>> >>]}

\* str.replace(old, new) where the replacement is a text of several tokens:
\* every occurrence of `old` is replaced.
RECURSIVE ReplaceAll(_, _, _)
ReplaceAll(text, old, new) ==
    IF text = <<>> THEN <<>>
    ELSE (IF Head(text) = old THEN new ELSE <<Head(text)>>)
             \o ReplaceAll(Tail(text), old, new)

\* The user prompt generate_page sends to the model for a links section.
user_prompt(page, config, fmt, links_section) ==
    LET prompt == build_page_prompt(page, config, fmt)
    IN  IF links_section # <<>>
        THEN IF \E i \in DOMAIN prompt : prompt[i] = Marker
             THEN ReplaceAll(prompt, Marker, links_section \o <<Marker>>)
             ELSE prompt \o links_section
        ELSE prompt

\* generate_page(page) up to the model call: `last` keeps the page, the
\* section built and the user prompt of the call.
GeneratePagePrompt ==
    /\ CanCall
    /\ \E page \in InjectPages, config \in PromptConfigs :
       \E pos \in generate_page_draws(Self) :
          LET section == _build_links_section(global_links, link_usage,
                             content_format, SampleEntries(MaskingAttr, pos))
          IN  last' = [NoCall EXCEPT
                          !.op = "user_prompt", !.usage_before = link_usage,
                          !.sample = <<config, page, content_format>>,
                          !.section = section,
                          !.result = user_prompt(page, config, content_format,
                                                 section)]
    /\ UNCHANGED <<global_links, link_usage, masking_links, attrs, content_format>>
    /\ UNCHANGED appVars

InjectNext ==
    \/ SetGlobalLinks
    \/ SetMaskingLinks
    \/ GeneratePagePrompt

\* Generators of every format building the user prompt of their pages.
SpecInject == PromptInit /\ [][InjectNext]_vars

\* ----------------------------------------------------------- uploads
\* Files handed to one upload.
MaxFiles == 2
UploadWorkers == {"mediawiki_directory", "confluence_directory", "run_upload"}
UploadNames == {FileName(<<"A">>, "mediawiki"), FileName(<<"B">>, "mediawiki")}

\* The generated directory an upload may find.
UploadDirs == {[n \in S |-> <<"old">>] : S \in SUBSET UploadNames}

\* The listings a glob of the content directory may return: every file once,
\* in any order.
Listings ==
    {l \in SeqsUpTo(UploadNames, MaxFiles) :
        \A x, y \in DOMAIN l : x # y => l[x] # l[y]}

UploadInit ==
    /\ GenInit
    /\ progress_store = 0
    /\ recs = <<>>
    /\ thr = <<>>
    /\ files \in UploadDirs
    /\ up = NoUpload

\* An upload begins: upload_directory of one of the adapters on the files it
\* lists, or the application's run_upload worker on the names posted to it
\* (at least one; upload_pages refuses an empty selection).
StartUpload ==
    /\ up.pc = "idle"
    /\ \E worker \in UploadWorkers :
       \E names \in (IF worker = "run_upload"
                     THEN SeqsUpTo(UploadNames, MaxFiles) \ {<<>>}
                     ELSE Listings) :
          up' = [NoUpload EXCEPT
                    !.worker = worker, !.names = names,
                    !.status = IF worker = "run_upload" THEN "uploading" ELSE "",
                    !.pc = IF worker = "run_upload" THEN "login"
                           ELSE IF names = <<>> THEN "finish" ELSE "loop"]
    /\ UNCHANGED <<progress_store, recs, thr, files, genVars>>

\* run_upload: get_adapter(project) and adapter.login(), whose outcome is
\* noted in the log: True goes on to the files, False and an exception end
\* the upload with status 'error'.
UploadLogin ==
    /\ up.pc = "login"
    /\ \E outcome \in {"ok", "failed", "raised"} :
          up' = IF outcome = "ok"
                THEN [up EXCEPT !.pc = "loop", !.log = Append(@, "login_ok")]
                ELSE [up EXCEPT !.status = "error", !.pc = "done",
                                !.log = Append(@, "login_" \o outcome)]
    /\ UNCHANGED <<progress_store, recs, thr, files, genVars>>

\* Where an upload goes once `done` of its files are handled.
AfterFile(u, done) == IF done < Len(u.names) THEN "loop" ELSE "finish"

\* One iteration of the loop over the files: upload_page is called (it
\* answers True or False, or raises), the outcome is noted, and the
\* MediaWiki adapter's upload_directory sleeps rate_limit_delay when
\* another file follows. run_upload skips a name that has no file.
UploadFile ==
    LET name == up.names[up.i + 1]
        moved == [up EXCEPT !.i = up.i + 1, !.pc = AfterFile(up, up.i + 1)]
    IN  /\ up.pc = "loop"
        /\ IF up.worker = "run_upload" /\ name \notin DOMAIN files
           THEN up' = [moved EXCEPT !.failed = Append(@, name)]
           ELSE \E outcome \in {"ok", "failed", "raised"} :
                   LET called == [moved EXCEPT !.log = Append(@, "upload_page")]
                       noted ==
                           IF outcome = "ok"
                           THEN [called EXCEPT !.completed = Append(@, name)]
                           ELSE [called EXCEPT !.failed = Append(@, name)]
                   IN  up' =
                         IF outcome = "raised"
                         THEN [up EXCEPT !.log = Append(@, "upload_page"),
                                         !.status = IF up.worker = "run_upload"
                                                    THEN "error" ELSE "raised",
                                         !.pc = "done"]
                         ELSE IF up.worker = "run_upload"
                         THEN [noted EXCEPT
                                  !.percent = Percent(up.i + 1, Len(up.names))]
                         ELSE IF up.worker = "mediawiki_directory"
                                   /\ up.i + 1 < Len(up.names)
                         THEN [noted EXCEPT !.log = Append(@, "delay")]
                         ELSE noted
        /\ UNCHANGED <<progress_store, recs, thr, files, genVars>>

\* The end of the loop: run_upload sets status 'complete', upload_directory
\* returns its results.
UploadFinish ==
    /\ up.pc = "finish"
    /\ up' = [up EXCEPT !.pc = "done",
                        !.status = IF up.worker = "run_upload"
                                   THEN "complete" ELSE "returned"]
    /\ UNCHANGED <<progress_store, recs, thr, files, genVars>>

UploadNext ==
    \/ StartUpload
    \/ UploadLogin
    \/ UploadFile
    \/ UploadFinish

SpecUpload == UploadInit /\ [][UploadNext]_vars

\* ------------------------------------------------- upload_page retries
\* Largest max_retries an adapter is configured with.
MaxRetries == 2

\* What the wiki may answer to an edit POST: edit result Success, an error
\* with code ratelimited, badtoken or another code, a body with neither
\* 'edit' nor 'error', or no answer at all (a RequestException).
PostOutcomes == {"Success", "ratelimited", "badtoken", "other", "unexpected", "exception"}

\* What a token request may come to: a token, a RequestException, or a body
\* without query.tokens.csrftoken.
FetchOutcomes == {"ok", "exception", "malformed"}

\* The token cached by the adapter before the call: 0 for None.
CachedTokens == {0, 1}

\* The token the f-th token request of a call returns.
FreshToken(f) == 10 + f

\* 2 ** attempt
RECURSIVE Pow2(_)
Pow2(k) == IF k = 0 THEN 1 ELSE 2 * Pow2(k - 1)

\* The retry loop of upload_page from `attempt` on. `token` is the token in
\* edit_params, `cache` is self._csrf_token, `f` counts the token requests
\* made, `acc` gathers the POSTs sent (by their token) and the waits slept.
RECURSIVE upload_attempts(_, _, _, _, _, _, _, _)
upload_attempts(attempt, max_retries, posts, fetches, f, token, cache, acc) ==
    IF attempt >= max_retries
    THEN [result |-> "False", sent |-> acc.sent, waits |-> acc.waits,
          fetched |-> f, cache |-> cache]
    ELSE LET answer == posts[attempt + 1]
             sent == Append(acc.sent, token)
             end(res, c, n) == [result |-> res, sent |-> sent, waits |-> acc.waits,
                                fetched |-> n, cache |-> c]
             backoff ==
                 IF attempt < max_retries - 1
                 THEN upload_attempts(attempt + 1, max_retries, posts, fetches, f,
                          token, cache,
                          [sent |-> sent, waits |-> Append(acc.waits, Pow2(attempt))])
                 ELSE end("False", cache, f)
         IN  IF answer = "Success" THEN end("True", cache, f)
             ELSE IF answer = "ratelimited"
             THEN upload_attempts(attempt + 1, max_retries, posts, fetches, f, token,
                      cache,
                      [sent |-> sent, waits |-> Append(acc.waits, (attempt + 1) * 5)])
             ELSE IF answer = "badtoken"
             THEN \* self._csrf_token = None, then a token request inside the try
                  IF fetches[f + 1] = "ok"
                  THEN upload_attempts(attempt + 1, max_retries, posts, fetches, f + 1,
                           FreshToken(f + 1), FreshToken(f + 1),
                           [sent |-> sent, waits |-> acc.waits])
                  ELSE IF fetches[f + 1] = "exception"
                  THEN IF attempt < max_retries - 1
                       THEN upload_attempts(attempt + 1, max_retries, posts, fetches,
                                f + 1, token, 0,
                                [sent |-> sent,
                                 waits |-> Append(acc.waits, Pow2(attempt))])
                       ELSE end("False", 0, f + 1)
                  ELSE end("raised", 0, f + 1)
             ELSE IF answer = "exception" THEN backoff
             ELSE end("False", cache, f)

\* upload_page(title, content) for the answers the wiki gives to the POSTs
\* and to the token requests of the call. The first token request, made
\* when no token is cached, is outside the try.
upload_page(cached, max_retries, posts, fetches) ==
    IF cached # 0
    THEN upload_attempts(0, max_retries, posts, fetches, 0, cached, cached,
                         [sent |-> <<>>, waits |-> <<>>])
    ELSE IF fetches[1] = "ok"
    THEN upload_attempts(0, max_retries, posts, fetches, 1, FreshToken(1),
                         FreshToken(1), [sent |-> <<>>, waits |-> <<>>])
    ELSE [result |-> "raised", sent |-> <<>>, waits |-> <<>>, fetched |-> 1,
          cache |-> 0]

\* A call of upload_page; `last` keeps the arguments and what the call did.
\* The call reads nothing but its inputs, so one call per behaviour is
\* followed.
CallUploadPage ==
    /\ last.op = "none"
    /\ \E max_retries \in 0..MaxRetries, cached \in CachedTokens :
       \E posts \in [1..max_retries -> PostOutcomes],
          fetches \in [1..(max_retries + 1) -> FetchOutcomes] :
          last' = [NoCall EXCEPT
                      !.op = "upload_page", !.n = max_retries,
                      !.sample = <<cached, posts, fetches>>,
                      !.result = upload_page(cached, max_retries, posts, fetches)]
    /\ UNCHANGED <<global_links, link_usage, masking_links, attrs, content_format>>
    /\ UNCHANGED appVars

\* The generator used on its own; the application stays idle.
Init == GenInit /\ AppInit /\ files = <<>>

Next ==
    \/ SetGlobalLinks
    \/ SetMaskingLinks
    \/ GeneratePage
    \/ AddLinksToExisting("add_masking")
    \/ AddLinksToExisting("add_operator")

Spec == Init /\ [][Next]_vars

\* _get_random_masking_links applied to masking banks and sizes of its own.
SampleNext == SampleLoad \/ SampleCall

SpecSample == Init /\ [][SampleNext]_vars

\* The web application: requests start batches, whose workers run
\* interleaved page by page.
BatchNext ==
    \/ StartGeneration
    \/ \E b \in DOMAIN thr : Begin(b)
    \/ \E b \in DOMAIN thr : LocalPage(b)
    \/ \E b \in DOMAIN thr : Login(b)
    \/ \E b \in DOMAIN thr : LivePage(b)
    \/ \E b \in DOMAIN thr : Finish(b)

BatchInit == GenInit /\ AppInit

SpecBuilder == Init /\ [][BuilderNext]_vars

\* upload_page called with every configuration and every run of answers.
SpecRetry == Init /\ [][CallUploadPage]_vars

\* ------------------------------------------------ one longer batch
\* Pages (selected and live together) of the one batch followed alone.
MaxLongPages == 3

LongRequests ==
    {r \in [pages : SeqsUpTo(ReqTitles, MaxLongPages),
            live_pages : SeqsUpTo(ReqTitles, MaxLongPages),
            mode : Modes] :
        /\ Len(r.pages) + Len(r.live_pages) >= 1
        /\ Len(r.pages) + Len(r.live_pages) <= MaxLongPages}

\* start_generation for the only request of the exploration.
StartLongBatch ==
    /\ thr = <<>>
    /\ \E r \in LongRequests :
          /\ recs' = Append(recs, NewProgress(r))
          /\ progress_store' = Len(recs) + 1
          /\ thr' = Append(thr, NewThread(r))
    /\ UNCHANGED <<files, up, genVars>>

ProgressNext ==
    \/ StartLongBatch
    \/ \E b \in DOMAIN thr : Begin(b)
    \/ \E b \in DOMAIN thr : LocalPage(b)
    \/ \E b \in DOMAIN thr : Login(b)
    \/ \E b \in DOMAIN thr : LivePage(b)
    \/ \E b \in DOMAIN thr : Finish(b)

\* One batch on its own, its progress record written by its worker alone.
SpecProgress == BatchInit /\ [][ProgressNext]_vars

\* ------------------------------------------------ titles and file names
\* Longest page title followed through its file name.
MaxTitleLen == 2

TitleChars == {"A", "B", " ", "/", "_"}
Titles == SeqsUpTo(TitleChars, MaxTitleLen) \ {<<>>}

\* filepath.stem.replace('_', ' '): the title run_upload uploads a file as.
upload_title(filename) ==
    ReplaceChar(SubSeq(filename, 1, Len(filename) - 1), "_", " ")

\* Two pages of one project are generated and the file of the first is
\* uploaded: `last` keeps the titles, the two file names and the title the
\* upload uses.
TitleRoundTrip ==
    /\ last.op = "none"
    /\ \E a \in Titles, b \in Titles, fmt \in Formats :
          last' = [NoCall EXCEPT
                      !.op = "round_trip",
                      !.sample = <<a, b, fmt>>,
                      !.result = <<FileName(a, fmt), upload_title(FileName(a, fmt)),
                                   FileName(b, fmt)>>]
    /\ UNCHANGED <<global_links, link_usage, masking_links, attrs, content_format>>
    /\ UNCHANGED appVars

\* Page titles of every shape written to files and read back by the upload.
SpecTitle == Init /\ [][TitleRoundTrip]_vars

\* Requests of every kind reaching start_generation, and generators
\* constructed with and without a key.
SpecStart == Init /\ [][StartNext]_vars

SpecBatch == BatchInit /\ [][BatchNext]_vars

\* ------------------------------------------------------------ properties
Url(link) == Get(link, "url", Empty)
Count(link) == Get(link, "count", 0)
Used(usage, link) == Get(usage, Url(link), 0)

\* The entries of a sequence, as a set.
Range(seq) == {seq[i] : i \in DOMAIN seq}

\* C1: every primary-bank entry with count N > 0 has link_usage[url] <= N in
\* every state reached by generate_page and add_links_to_existing calls after
\* set_global_links.
C1_QuotaInvariant ==
    \A i \in DOMAIN global_links :
        Count(global_links[i]) > 0
            => Used(link_usage, global_links[i]) <= Count(global_links[i])

\* C2: once N usages of the URL of an entry with count N > 0 are recorded,
\* _get_eligible_links never returns the entry again; and with a one-entry
\* bank of count 1, a page whose output holds the URL brings usage to 1, and
\* the next page is built with an empty eligible list and no link section.
C2_StepOk ==
    /\ \A i \in DOMAIN global_links :
          LET link == global_links[i]
          IN  (Count(link) > 0 /\ Used(link_usage, link) >= Count(link))
                  => link \notin Range(_get_eligible_links(global_links', link_usage'))
    /\ (Len(global_links') = 1 /\ Count(global_links'[1]) = 1
            /\ Url(global_links'[1]) # Empty /\ last'.op = "generate_page")
          => LET url == Url(global_links'[1])
             IN  /\ (last'.usage_before[url] = 0 /\ ~last'.raised
                         /\ Contains(last'.content, url))
                       => link_usage'[url] = 1
                 /\ last'.usage_before[url] = 1
                       => /\ _get_eligible_links(global_links', last'.usage_before) = <<>>
                          /\ last'.section = Empty
                          /\ link_usage'[url] = 1

\* C2, as a property of every step: what C2_StepOk states holds across it.
C2_ExhaustionPermanent == [][C2_StepOk]_vars

\* C2 witness: page two of the scenario, whose output holds the URL again.
C2_Witness ==
    /\ Len(global_links) = 1 /\ Count(global_links[1]) = 1
    /\ Url(global_links[1]) = UrlShort
    /\ last.op = "generate_page" /\ ~last.raised
    /\ last.usage_before[UrlShort] = 1
    /\ Contains(last.content, UrlShort)
    /\ last.section = Empty

\* C3 as stated: every entry whose count is 0 or absent is returned by
\* _get_eligible_links in every reachable state.
C3_Original ==
    \A i \in DOMAIN global_links :
        Count(global_links[i]) = 0
            => global_links[i] \in Range(_get_eligible_links(global_links, link_usage))

\* C3 amended: every entry with a non-empty url whose count is 0 or absent is
\* returned by _get_eligible_links in every reachable state, whatever its
\* recorded usage.
C3_UnlimitedEligible ==
    \A i \in DOMAIN global_links :
        (Count(global_links[i]) = 0 /\ Url(global_links[i]) # Empty)
            => global_links[i] \in Range(_get_eligible_links(global_links, link_usage))

\* C3 witness: an entry without count that has been counted twice or more.
C3_Witness ==
    \E i \in DOMAIN global_links :
        /\ "count" \notin DOMAIN global_links[i]
        /\ Url(global_links[i]) # Empty
        /\ Used(link_usage, global_links[i]) >= 2
        /\ last.op # "none"

\* The bank restricted to the positions in idx, in bank order, is exactly seq.
IsBankRestriction(seq, idx) ==
    /\ Len(seq) = Cardinality(idx)
    /\ \E f \in [1..Len(seq) -> idx] :
          /\ \A a, b \in 1..Len(seq) : a < b => f[a] < f[b]
          /\ \A a \in 1..Len(seq) : seq[a] = global_links[f[a]]

\* C4 as stated: _get_eligible_links returns exactly the entries with
\* count == 0 or link_usage[url] < count, in bank order.
C4_Original ==
    IsBankRestriction(
        _get_eligible_links(global_links, link_usage),
        {i \in DOMAIN global_links :
            \/ Count(global_links[i]) = 0
            \/ Used(link_usage, global_links[i]) < Count(global_links[i])})

\* C4 amended: _get_eligible_links returns exactly the entries with a
\* non-empty url and (count == 0 or link_usage[url] < count), in bank order,
\* from the usage at the moment of the call: the section generate_page builds
\* is empty exactly when no entry passed under the usage it started with.
C4_EligibleExact ==
    /\ IsBankRestriction(
           _get_eligible_links(global_links, link_usage),
           {i \in DOMAIN global_links :
               /\ Url(global_links[i]) # Empty
               /\ \/ Count(global_links[i]) = 0
                  \/ Used(link_usage, global_links[i]) < Count(global_links[i])})
    /\ last.op = "generate_page"
          => (last.section = Empty <=>
                 \A i \in DOMAIN global_links :
                     \/ Url(global_links[i]) = Empty
                     \/ /\ Count(global_links[i]) # 0
                        /\ Used(last.usage_before, global_links[i])
                               >= Count(global_links[i]))

\* C4 witness: after a call, the first entry of a two-entry bank is used up
\* and the second, of another URL, is the whole eligible list.
C4_Witness ==
    /\ Len(global_links) = 2
    /\ last.op # "none"
    /\ Url(global_links[1]) # Url(global_links[2])
    /\ Count(global_links[1]) > 0
    /\ Used(link_usage, global_links[1]) = Count(global_links[1])
    /\ _get_eligible_links(global_links, link_usage) = <<global_links[2]>>

\* C5: in a successful generate_page call and in an add_links_to_existing
\* call in mode add_operator, the count of a bank URL grows by exactly 1 if the
\* URL is that of an eligible link and occurs in the model's output, and by 0
\* otherwise.
C5_UsagePerPage ==
    (last.op \in {"generate_page", "add_operator"} /\ ~last.raised)
        => \A u \in DOMAIN link_usage :
              LET eligible == _get_eligible_links(global_links, last.usage_before)
                  hit == /\ \E k \in DOMAIN eligible : Url(eligible[k]) = u
                         /\ last.called_model
                         /\ Contains(last.content, u)
              IN  link_usage[u] = last.usage_before[u] + (IF hit THEN 1 ELSE 0)

\* C6: add_links_to_existing in mode add_masking leaves link_usage as it was,
\* whatever the model returns.
C6_MaskingKeepsUsage ==
    last.op = "add_masking" => link_usage = last.usage_before

\* C6 witness: the model was called in mode add_masking with a sampled masking
\* URL that is also the URL of an eligible primary link, and its answer holds
\* that URL.
C6_Witness ==
    /\ last.op = "add_masking" /\ last.called_model /\ ~last.raised
    /\ \E k \in DOMAIN last.sample :
          LET url == Url(masking_links[last.sample[k]])
          IN  /\ Contains(last.content, url)
              /\ \E i \in DOMAIN global_links :
                    /\ Url(global_links[i]) = url
                    /\ IsEligible(global_links[i], last.usage_before)

\* C7: _get_random_masking_links(n) on a masking bank of size k returns
\* min(n, k) entries of the bank taken from pairwise distinct positions, and
\* the empty sequence when the bank is empty or was never set.
C7_SampleShape ==
    last.op = "sample"
        => LET k == Len(MaskingAttr)
               pos == last.sample
           IN  /\ Len(last.result) = Min(last.n, k)
               /\ Len(pos) = Len(last.result)
               /\ \A a \in DOMAIN pos :
                     /\ pos[a] \in 1..k
                     /\ last.result[a] = MaskingAttr[pos[a]]
               /\ \A a, b \in DOMAIN pos : a # b => pos[a] # pos[b]
               /\ ("masking_links" \notin attrs \/ masking_links = <<>>)
                     => last.result = <<>>

\* C7 witness: n is smaller than the bank, and the sample is drawn out of bank
\* order from a bank that holds the same entry twice.
C7_Witness ==
    /\ last.op = "sample"
    /\ last.n = 2 /\ Len(masking_links) = 3
    /\ masking_links[1] = masking_links[2]
    /\ last.sample = <<3, 1>>

\* ------------------------------------------------------------ batches
\* The pages batch t has to process: total_pages of its request.
Total(t) == Len(t.pages) + (IF t.mode = "full" THEN 0 ELSE Len(t.live_pages))

\* The title of the k-th page batch t has gone through.
Processed(t, k) ==
    IF k <= Len(t.pages) THEN t.pages[k] ELSE t.live_pages[k - Len(t.pages)]

\* C8: partial-failure batch semantics. Of a batch that has ended, every
\* page whose model call raised is in failed, every page that was saved is
\* in success, and len(success) + len(failed) is the number of pages the
\* batch was given.
C8_PartialFailure ==
    \A b \in DOMAIN thr :
        LET t == thr[b]
            p == recs[t.rec]
        IN  (t.loaded /\ t.pc = "done") =>
                /\ \A k \in DOMAIN t.events :
                      /\ t.events[k] = "raised" => Processed(t, k) \in Range(p.failed)
                      /\ t.events[k] = "saved" => Processed(t, k) \in Range(p.success)
                /\ Len(p.success) + Len(p.failed) = Total(t)

\* C9: batch completion. A batch whose generator is constructed and whose
\* banks are loaded never has status 'error'.
C9_NeverError ==
    \A b \in DOMAIN thr :
        thr[b].loaded => recs[thr[b].rec].status # "error"

\* C10: per-run usage scope. A batch that has loaded its banks and has not
\* yet gone through a page counts 0 uses for every URL of the link bank,
\* whatever other batches have counted and whatever the generated files hold.
C10_FreshUsage ==
    \A b \in DOMAIN thr :
        LET t == thr[b]
        IN  (t.loaded /\ t.events = <<>>) =>
                /\ DOMAIN t.link_usage = {Url(LinksYaml[k]) : k \in DOMAIN LinksYaml}
                /\ \A u \in DOMAIN t.link_usage : t.link_usage[u] = 0

\* A second batch has just loaded its banks while the first has counted a
\* use of the bank's URL and has saved a file that holds it.
C10_Witness ==
    /\ Len(thr) = 2
    /\ thr[2].loaded /\ thr[2].events = <<>>
    /\ thr[2].link_usage[UrlShort] = 0
    /\ thr[1].loaded /\ thr[1].link_usage[UrlShort] >= 1
    /\ \E n \in DOMAIN files : Contains(files[n], UrlShort)

\* The files batch t has written so far.
Written(t) ==
    {FileName(Processed(t, k), t.content_format) :
        k \in {e \in DOMAIN t.events : t.events[e] = "saved"}}

\* C11: a quota caps articles. For a bank link with count N > 0, at most N
\* of the files one batch has written hold the link's URL.
C11_QuotaCapsFiles ==
    \A b \in DOMAIN thr :
        \A k \in DOMAIN LinksYaml :
            Count(LinksYaml[k]) > 0 =>
                Cardinality({n \in Written(thr[b]) \cap DOMAIN files :
                                Contains(files[n], Url(LinksYaml[k]))})
                    <= Count(LinksYaml[k])

\* ------------------------------------------------------------ prompts
\* The link instructions built last: a link-bank section or an edit prompt.
BuiltInstructions ==
    IF last.op \in {"links_section", "add_masking", "add_operator"}
    THEN last.section ELSE Empty

\* C12: link instructions follow the format. Built for confluence, they
\* prescribe the anchor tag and hold no double bracket; the bracketed-URL
\* note appears only in instructions built for mediawiki.
C12_ConfluenceSyntax ==
    BuiltInstructions # Empty =>
        /\ content_format = "confluence" =>
              /\ Contains(BuiltInstructions, <<AnchorTag>>)
              /\ ~Contains(BuiltInstructions, <<DoubleBracket>>)
        /\ Contains(BuiltInstructions, <<BracketUrl>>) => content_format = "mediawiki"

\* A confluence section that lists a bank link and a masking link.
C12_Witness ==
    /\ content_format = "confluence"
    /\ last.op = "links_section"
    /\ last.sample # <<>>
    /\ Contains(last.section, <<"## Natural Reference Links">>)
    /\ Contains(last.section, <<AnchorTag>>)

\* A call of the same builder with the arguments of the last call returns,
\* in the state the generator is in now, what the last call returned.
C13_SameResult ==
    /\ last.op = "system_prompt" =>
          last.result = build_system_prompt(last.sample[1], last.sample[3], last.sample[4])
    /\ last.op = "page_prompt" =>
          last.result = build_page_prompt(last.sample[2], last.sample[1], last.sample[3])

\* A builder call changes neither the banks nor the usage counts.
C13_NoEffect ==
    (last'.op \in {"system_prompt", "page_prompt"} /\ last' # last) =>
        UNCHANGED <<global_links, link_usage, masking_links, attrs, content_format>>

C14_OneCall ==
    \A b \in DOMAIN thr : thr[b].calls <= Len(thr[b].events)

\* A step in which a page's model call raises leaves the batch's usage
\* counts and every generated file as they were.
C14_RaiseKeeps ==
    \A b \in DOMAIN thr :
        (b \in DOMAIN thr' /\ Len(thr'[b].events) = Len(thr[b].events) + 1
             /\ thr'[b].events[Len(thr'[b].events)] = "raised") =>
            /\ thr'[b].link_usage = thr[b].link_usage
            /\ thr'[b].calls = thr[b].calls + 1
            /\ files' = files

\* C14: no retry and no side effect on a model failure. A page costs at most
\* one model call, and a call that raises changes neither link_usage nor
\* the file the page had.
C14_NoRetryNoEffect == []C14_OneCall /\ [][C14_RaiseKeeps]_vars

\* A full-mode page whose file existed had its model call raise: the file
\* is as before and the link was not counted.
C14_Witness ==
    \E b \in DOMAIN thr :
        /\ thr[b].mode = "full"
        /\ thr[b].events = <<"raised">>
        /\ thr[b].calls = 1
        /\ thr[b].link_usage[UrlShort] = 0
        /\ FileName(thr[b].pages[1], "mediawiki") \in DOMAIN files
        /\ files[FileName(thr[b].pages[1], "mediawiki")] = <<"old">>

\* The step of batch b goes through one page and ends it as `kind`.
EndsPage(b, kind) ==
    /\ b \in DOMAIN thr'
    /\ Len(thr'[b].events) = Len(thr[b].events) + 1
    /\ thr'[b].events[Len(thr'[b].events)] = kind

\* What a step that ends a page as not found does, and all it does.
C15_Step ==
    \A b \in DOMAIN thr :
        (EndsPage(b, "no_file") \/ EndsPage(b, "no_content")) =>
            LET t == thr[b]
                title == Processed(thr'[b], Len(thr'[b].events))
            IN  /\ t.mode \in {"add_masking", "add_operator"}
                /\ recs'[t.rec].failed = Append(recs[t.rec].failed, title)
                /\ recs'[t.rec].success = recs[t.rec].success
                /\ thr'[b].calls = t.calls
                /\ thr'[b].link_usage = t.link_usage
                /\ files' = files
                /\ thr'[b].pc = (IF EndsPage(b, "no_file")
                                 THEN AfterLocal(t, t.i + 1)
                                 ELSE AfterLive(t, t.j + 1))
                /\ thr'[b].pc # "done"

\* C15: not-found in an edit pass. A selected page without a generated file
\* and a live page without content on the wiki go to failed; no model call
\* is made, no file is written, link_usage stays, and the batch goes on to
\* its next page.
C15_NotFoundSkipped == [][C15_Step]_vars

\* An edit pass found no file for its selected page and no content for its
\* live page, and came to its end without a model call.
C15_Witness ==
    \E b \in DOMAIN thr :
        /\ thr[b].events = <<"no_file", "no_content">>
        /\ thr[b].calls = 0
        /\ thr[b].pc = "done"
        /\ Len(recs[thr[b].rec].failed) = 2
        /\ files = <<>>

\* ------------------------------------------------------ configuration
\* A request without an API key or without a page is answered with an
\* error and changes nothing of the application.
C16_Refused ==
    (last'.op = "start_generation" /\ last' # last
         /\ (last'.content = Empty \/ last'.sample = << <<>>, <<>> >>)) =>
        /\ last'.raised /\ last'.result # Empty
        /\ UNCHANGED <<progress_store, recs, thr, files>>

\* A generator constructed with no key from any source raises, and no
\* model call was made.
C16_NoKeyRaises ==
    (last.op = "init_openai" /\ last.sample = <<Empty, Empty, Empty>>) =>
        last.raised /\ ~last.called_model

\* C16: configuration errors are reported before any work. A start request
\* without API key or pages returns an error, stores no progress record and
\* starts no worker; a generator without an API key raises at construction.
C16_ConfigErrorsFirst == [][C16_Refused]_vars /\ []C16_NoKeyRaises

\* A batch is running and a later request without an API key was refused:
\* the progress entry is still the running batch's.
C16_Witness ==
    /\ Len(thr) = 1 /\ progress_store = 1 /\ Len(recs) = 1
    /\ last.op = "start_generation"
    /\ last.content = Empty
    /\ last.sample[1] # <<>>
    /\ last.raised

\* ------------------------------------------------------------ uploads
\* C17: upload rate limiting. In every upload, between two successive
\* upload_page calls the fixed delay elapses: no two calls follow each
\* other directly.
C17_DelayBetweenUploads ==
    \A k \in 1..(Len(up.log) - 1) :
        ~(up.log[k] = "upload_page" /\ up.log[k + 1] = "upload_page")

\* ------------------------------------------------------------ progress
\* C18: single writer of progress. No two workers hold the same progress
\* record: every record is written by at most one worker.
C18_SingleWriter ==
    \A a, b \in DOMAIN thr :
        (a # b /\ thr[a].rec # 0 /\ thr[b].rec # 0) => thr[a].rec # thr[b].rec

\* ------------------------------------------------------------ order
\* The titles batch t has ended as one of `kinds`, in the order it went
\* through them.
RECURSIVE EndedAs(_, _, _)
EndedAs(t, kinds, k) ==
    IF k = 0 THEN <<>>
    ELSE EndedAs(t, kinds, k - 1)
             \o (IF t.events[k] \in kinds THEN <<Processed(t, k)>> ELSE <<>>)

\* a is b with some entries left out.
RECURSIVE IsSubseq(_, _)
IsSubseq(a, b) ==
    IF a = <<>> THEN TRUE
    ELSE IF b = <<>> THEN FALSE
    ELSE IF Head(a) = Head(b) THEN IsSubseq(Tail(a), Tail(b))
    ELSE IsSubseq(a, Tail(b))

\* Batch b is the only worker that writes its progress record.
OwnRecord(b) == \A a \in DOMAIN thr : a # b => thr[a].rec # thr[b].rec

\* C19: sequential batch processing. A batch goes through its pages one by
\* one in the order submitted, every local page before any live page; each
\* page is in success or failed before the next is begun, and success and
\* failed keep the order of submission.
C19_Sequential ==
    \A b \in DOMAIN thr :
        LET t == thr[b]
            saved == EndedAs(t, {"saved"}, Len(t.events))
            lost == EndedAs(t, {"raised", "no_file", "no_content", "not_configured",
                                "not_logged_in"}, Len(t.events))
        IN  /\ t.i <= Len(t.pages) /\ t.j <= Len(t.live_pages)
            /\ Len(t.events) = t.i + t.j
            /\ t.j > 0 => t.i = Len(t.pages)
            /\ t.pc = "local" => t.i < Len(t.pages)
            /\ t.pc = "live" => t.j < Len(t.live_pages)
            /\ t.rec # 0 =>
                  /\ IsSubseq(saved, recs[t.rec].success)
                  /\ IsSubseq(lost, recs[t.rec].failed)
                  /\ OwnRecord(b) => /\ recs[t.rec].success = saved
                                     /\ recs[t.rec].failed = lost

\* An edit pass has gone through a local page and then a live page and has
\* saved both: success lists them in that order.
C19_Witness ==
    \E b \in DOMAIN thr :
        /\ thr[b].pages = << <<"A">> >> /\ thr[b].live_pages = << <<"B">> >>
        /\ thr[b].events = <<"saved", "saved">>
        /\ recs[thr[b].rec].success = << <<"A">>, <<"B">> >>

\* ------------------------------------------------------------ retries
\* The POST answers the last upload_page call got to see.
Seen == SubSeq(last.sample[2], 1, Len(last.result.sent))

\* C20: bounded upload retry. upload_page sends at most max_retries edit
\* POSTs and returns a boolean; it returns True only when an answer reports
\* Success, goes on only after ratelimited, badtoken or a network exception,
\* and waits (attempt + 1) * 5 or 2 ^ attempt seconds before it does.
C20_BoundedRetry ==
    last.op = "upload_page" =>
        /\ last.result.result \in {"True", "False"}
        /\ Len(last.result.sent) <= last.n
        /\ last.result.result = "True" =>
              Seen # <<>> /\ Seen[Len(Seen)] = "Success"
        /\ \A k \in 1..(Len(Seen) - 1) :
              Seen[k] \in {"ratelimited", "badtoken", "exception"}
        /\ \A k \in DOMAIN last.result.waits :
              \E a \in 0..(last.n - 1) :
                  last.result.waits[k] \in {(a + 1) * 5, Pow2(a)}

\* C21: token refresh on expiry. After an attempt answered badtoken the next
\* attempt carries another token, the rejected token is in no later attempt
\* of the call, and the call leaves a token cached for the next call.
C21_TokenRefreshed ==
    last.op = "upload_page" =>
        /\ \A k \in 1..Len(last.result.sent) :
              last.sample[2][k] = "badtoken" =>
                  \A j \in (k + 1)..Len(last.result.sent) :
                      last.result.sent[j] # last.result.sent[k]
        /\ (\A f \in 1..last.result.fetched : last.sample[3][f] = "ok")
           => /\ last.result.cache # 0
              /\ \A k \in 1..Len(last.result.sent) :
                    last.sample[2][k] = "badtoken" =>
                        last.result.cache # last.result.sent[k]

\* ------------------------------------------------------- related pages
\* C22: build_page_prompt renders the related pages of a page in the link
\* syntax of the target format: as double-bracket links for mediawiki and
\* without double brackets for confluence.
C22_NativeRelatedLinks ==
    (last.op = "page_prompt" /\ Get(last.sample[2], "related_pages", <<>>) # <<>>) =>
        LET rendered == ItemLines(last.sample[2].related_pages, "- [[", "]]")
            brackets == \E i \in DOMAIN last.result : last.result[i] = "- [["
        IN  IF last.sample[3] = "confluence"
            THEN ~brackets
            ELSE \E i \in DOMAIN last.result :
                    i + Len(rendered) - 1 <= Len(last.result)
                    /\ SubSeq(last.result, i, i + Len(rendered) - 1) = rendered

\* -------------------------------------------------- section injection
\* The page prompt of the last user prompt built.
PagePrompt == build_page_prompt(last.sample[2], last.sample[1], last.sample[3])

\* Where the Output Requirements block of a page prompt starts: the block
\* is the last thing build_page_prompt appends.
BlockStart(prompt) ==
    CHOOSE i \in DOMAIN prompt :
        prompt[i] = Marker /\ \A j \in (i + 1)..Len(prompt) : prompt[j] # Marker

\* C23: link-section injection. With a non-empty links section the user
\* prompt is the page prompt with the section put in once, right before the
\* Output Requirements block, and nothing else changed, whatever the page
\* specification says.
C23_InjectedOnce ==
    (last.op = "user_prompt" /\ last.section # <<>>) =>
        last.result = SubSeq(PagePrompt, 1, BlockStart(PagePrompt) - 1)
                          \o last.section
                          \o SubSeq(PagePrompt, BlockStart(PagePrompt), Len(PagePrompt))

\* ------------------------------------------- masking links in the prompt
\* The user prompt of the last generate_page call.
SentPrompt == user_prompt(ThePage, [pages |-> <<>>], content_format, last.section)

HasLine(text, line) == \E i \in DOMAIN text : text[i] = line

\* C24: masking links ride on primary links. generate_page samples the
\* masking bank and puts a Natural Reference Links section in the prompt only
\* when a primary link is eligible; with none eligible the prompt holds
\* neither section and no masking link is drawn.
C24_MaskingNeedsPrimary ==
    last.op = "generate_page" =>
        LET eligible == _get_eligible_links(global_links, last.usage_before)
        IN  /\ eligible = <<>> =>
                  /\ last.sample = <<>>
                  /\ SentPrompt = build_page_prompt(ThePage, [pages |-> <<>>],
                                                    content_format)
                  /\ ~HasLine(SentPrompt, "## Global Link Bank (External Links)")
                  /\ ~HasLine(SentPrompt, "## Natural Reference Links")
            /\ HasLine(SentPrompt, "## Natural Reference Links") =>
                  /\ eligible # <<>>
                  /\ last.sample # <<>>
                  /\ HasLine(SentPrompt, "## Global Link Bank (External Links)")

\* A page generated after the only quota of the bank was reached, with a
\* masking bank loaded.
C24_Witness ==
    /\ last.op = "generate_page"
    /\ global_links # <<>>
    /\ MaskingAttr # <<>>
    /\ _get_eligible_links(global_links, last.usage_before) = <<>>
    /\ \E i \in DOMAIN global_links :
          Count(global_links[i]) > 0
          /\ last.usage_before[Url(global_links[i])] >= Count(global_links[i])

\* ---------------------------------------------- edit pass, nothing to add
\* The last call was an edit pass that found no link for its mode.
NothingToAdd ==
    \/ last.op = "add_masking" /\ MaskingAttr = <<>>
    \/ last.op = "add_operator"
          /\ _get_eligible_links(global_links, last.usage_before) = <<>>

\* C25: an edit pass with nothing to add returns the existing content as it
\* is, does not call the model and leaves link_usage as it was.
C25_NothingToAdd ==
    NothingToAdd =>
        /\ last.result = ExistingContent
        /\ ~last.called_model
        /\ ~last.raised
        /\ link_usage = last.usage_before

\* An add_operator pass on a bank whose only quota was reached by an earlier
\* page.
C25_Witness ==
    /\ last.op = "add_operator"
    /\ NothingToAdd
    /\ \E i \in DOMAIN global_links :
          Count(global_links[i]) > 0
          /\ last.usage_before[Url(global_links[i])] >= Count(global_links[i])

\* ------------------------------------------------------ usage map shape
\* The url values of the primary bank; an entry without url has the empty
\* string, as set_global_links reads it.
BankUrls == {Url(global_links[i]) : i \in DOMAIN global_links}

C26_Keys ==
    "link_usage" \in attrs =>
        /\ DOMAIN link_usage = BankUrls
        /\ \A u \in DOMAIN link_usage : link_usage[u] >= 0

C26_Step ==
    "link_usage" \in attrs =>
        /\ DOMAIN link_usage' = DOMAIN link_usage
        /\ \A u \in DOMAIN link_usage : link_usage'[u] >= link_usage[u]

\* C26: usage map shape. After set_global_links the keys of link_usage stay
\* the URLs of the primary bank through every generate_page and
\* add_links_to_existing call, and every count is at least 0 and never
\* decreases.
C26_UsageShape == []C26_Keys /\ [][C26_Step]_vars

\* A page whose answer holds a masking URL that is not in the primary bank,
\* next to a bank URL that was counted.
C26_Witness ==
    /\ last.op = "generate_page" /\ ~last.raised
    /\ \E i \in DOMAIN MaskingAttr :
          /\ Url(MaskingAttr[i]) \notin BankUrls
          /\ Contains(last.content, Url(MaskingAttr[i]))
    /\ \E u \in DOMAIN link_usage : link_usage[u] > last.usage_before[u]

\* ------------------------------------------------ progress of a batch
\* C27: progress at completion. A progress record with status 'complete'
\* has completed equal to total and percent equal to 100, whatever the mode
\* and whatever became of the pages.
C27_CompleteIsFull ==
    \A r \in DOMAIN recs :
        recs[r].status = "complete" =>
            /\ recs[r].completed = recs[r].total
            /\ recs[r].percent = 100

C28_Bounds ==
    \A r \in DOMAIN recs :
        /\ 0 <= recs[r].completed /\ recs[r].completed <= recs[r].total
        /\ 0 <= recs[r].percent /\ recs[r].percent <= 100

C28_Step ==
    \A r \in DOMAIN recs :
        /\ recs'[r].completed >= recs[r].completed
        /\ recs'[r].percent >= recs[r].percent

\* C28: progress is monotone. During a batch the completed counter and the
\* percent of its progress record never decrease from one update to the
\* next, and 0 <= completed <= total and 0 <= percent <= 100 throughout.
C28_Monotone == []C28_Bounds /\ [][C28_Step]_vars

\* ------------------------------------------------------- title round trip
\* C29: title round trip through the file name. The title a generated file
\* is uploaded under is the title of the page that produced the file, and
\* two distinct titles of a project never have the same generated file.
C29_TitleRoundTrip ==
    last.op = "round_trip" =>
        /\ last.result[2] = last.sample[1]
        /\ last.sample[1] # last.sample[2] => last.result[1] # last.result[3]

\* ---------------------------------------------------- login and upload
\* C30: login gates upload. The run_upload worker calls upload_page only
\* after login() returned True; a failed login ends the upload with status
\* 'error' and nothing in completed or failed; after a login that succeeded
\* every selected file name is in exactly one of completed and failed when
\* the status is 'complete'.
C30_LoginGatesUpload ==
    up.worker = "run_upload" =>
        /\ (\E k \in DOMAIN up.log : up.log[k] = "upload_page") =>
              up.log[1] = "login_ok"
        /\ (up.log # <<>> /\ up.log[1] \in {"login_failed", "login_raised"}) =>
              /\ up.status = "error"
              /\ up.completed = <<>> /\ up.failed = <<>>
        /\ up.status = "complete" =>
              \A k \in DOMAIN up.names :
                  (up.names[k] \in Range(up.completed))
                      # (up.names[k] \in Range(up.failed))

====
